---- MODULE Spec2Model ----
(***************************************************************************)
(* The `now dev` development server: the busy/idle/error state machine,    *)
(* startup, the request handler, the build orchestration and teardown.     *)
(*                                                                         *)
(* The repository holds two DevServer classes:                             *)
(*   "cmd"  src/commands/dev/dev-server.ts      (builds on every request)  *)
(*   "lib"  src/commands/dev/lib/dev-server.ts  (builds once, at startup)  *)
(* The variable impl says which class the server instance is; it is chosen *)
(* in Init and never changes.                                              *)
(*                                                                         *)
(* JavaScript runs each handler to completion between two awaits, so an    *)
(* action is one such synchronous segment.  A catch block is split in two  *)
(* (setStatusError, then the response and setStatusIdle); the variable     *)
(* running holds the request in between and disables every other action.   *)
(*                                                                         *)
(* Three specifications:                                                   *)
(*   Spec        the server: start(), the request handlers, stop()         *)
(*   LookupSpec  resolveDest, matchHandler and route() called on their own *)
(*               with artifact maps, destinations and route lists          *)
(*   BuildSpec   start() of the cmd server and its build run, over         *)
(*               now.json files whose build rules produce colliding paths  *)
(***************************************************************************)
EXTENDS Integers, Sequences, FiniteSets, TLC

VARIABLES
    impl,           \* "cmd" | "lib": which DevServer class
    nowJson,        \* the project's now.json (a record of ConfigFiles)
    ignored,        \* the paths the project's ignore rules match
    lookup,         \* a call of a lookup function on its own (LookupSpec)
    status,         \* DevServer.status: "busy" | "idle" | "error"
    statusMessage,  \* DevServer.statusMessage
    assets,         \* lib: DevServer.assets, the published artifact map
    listening,      \* the http.Server is listening
    startPc,        \* position of start()
    pc,             \* pc[r]: position of the handler of request r
    req,            \* req[r]: the request (its url)
    res,            \* res[r]: the http.ServerResponse of request r
    routed,         \* lib: routed[r], what devRouter returned for r
    asset,          \* asset[r]: the artifact found for r (or NoAsset)
    failure,        \* failure[r]: message of the error r's handling raised
    running,        \* request inside a synchronous catch segment, or Nobody
    bidx,           \* bidx[p]: next step of the build run of process p
    results,        \* results[p]: buildLambdas' `results` of process p, returned at its end
    installCalls,   \* installCalls[u]: calls of builderCache.install for u
    stopPc,         \* position of stop()
    stopAssets,     \* lib stop(): this.assets as stop() read it
    ops,            \* lib stop(): ops[k], the promise of assets[k].fn.destroy()
    destroyCalls,   \* destroyCalls[k]: calls of assets[k].fn.destroy()
    closeState,     \* close(server): "none" | "pending" | "closed" | "failed"
    did             \* did[r]: the collaborators the handler of r has called

vars == << impl, nowJson, ignored, lookup, status, statusMessage, assets,
           listening, startPc, pc, req, res, routed, asset, failure, running, bidx, results,
           installCalls, stopPc, stopAssets, ops, destroyCalls, closeState, did >>

None == "none"

\* No request is inside a catch segment.
Nobody == 0

\* ------------------------------------------------------------------ bounds

\* Number of requests the clients send during the server's life.
NumReq == 3

Req == 1..NumReq

\* A process that can run a build: start() (process 0) or the handler of a
\* request.
StartProc == 0

Proc == Req \cup {StartProc}

\* ------------------------------------------------------------ project data
\* Paths and urls are sequences of characters.

SLASH == "/"

U_api     == << "/", "a", "p", "i" >>
U_favicon == << "/", "f", "a", "v", "i", "c", "o", "n", ".", "i", "c", "o" >>
U_lazy    == << "/", "l", "a", "z", "y", ".", "j", "s" >>
U_page    == << "/", "i", "n", "d", "e", "x", ".", "h", "t", "m", "l" >>
U_proxy   == << "h", "t", "t", "p", ":", "/", "/", "x" >>

K_api   == << "a", "p", "i", "/", "i", "n", "d", "e", "x", ".", "j", "s" >>
K_lazy  == << "l", "a", "z", "y", ".", "j", "s" >>
K_page  == << "i", "n", "d", "e", "x", ".", "h", "t", "m", "l" >>
K_apiTs == << "a", "p", "i", "/", "i", "n", "d", "e", "x", ".", "t", "s" >>

\* The urls clients request.  The lib handler passes the url to devRouter
\* and to the ignore list only, whose answers are drawn from RouteResults and
\* BOOLEAN, so one url stands for all.
Urls(variant) == IF variant = "cmd" THEN { U_api, U_favicon, U_page } ELSE { U_api }

\* An artifact map (BuilderOutputs) is a JavaScript object: a sequence of
\* << key, artifact >> pairs with distinct keys, in insertion order.
EmptyMap == << >>

Keys(m) == { m[i][1] : i \in DOMAIN m }

Has(m, k) == k \in Keys(m)

\* m[k], for a key of m.
Get(m, k) == m[CHOOSE i \in DOMAIN m : m[i][1] = k][2]

\* {...m, [k]: v}: an existing key keeps its place, a new one is appended.
Put(m, k, v) ==
    IF Has(m, k)
    THEN [i \in DOMAIN m |-> IF m[i][1] = k THEN << k, v >> ELSE m[i]]
    ELSE Append(m, << k, v >>)

\* Mutant of Spread: a key of a keeps the artifact it has.
RECURSIVE SpreadFirstWins(_, _)
SpreadFirstWins(a, b) ==
    IF b = << >> THEN a
    ELSE SpreadFirstWins(IF Has(a, Head(b)[1]) THEN a ELSE Append(a, Head(b)),
                         Tail(b))

\* {...a, ...b}: the keys of b win.
RECURSIVE Spread(_, _)
Spread(a, b) ==
    IF b = << >> THEN a
    ELSE Spread(Put(a, Head(b)[1], Head(b)[2]), Tail(b))

Lambda(hasFn) == [type |-> "Lambda", fn |-> hasFn]
FileFsRef     == [type |-> "FileFsRef", fn |-> FALSE]

\* What a handler holds of an artifact it looked up: its key and the artifact.
Found(m, k) == [key |-> k, type |-> Get(m, k).type, fn |-> Get(m, k).fn]

\* The lookup found nothing (undefined).
NoAsset == [key |-> << >>, type |-> "undefined", fn |-> FALSE]

\* The handler has not looked an artifact up.
Unset == [key |-> << >>, type |-> "unset", fn |-> FALSE]

\* The build rules of the project's now.json.
ProjectBuilds ==
    << [src |-> "api/*.js", use |-> "@now/node"],
       [src |-> "lazy.js",  use |-> "@now/node"],
       [src |-> "*.html",   use |-> "@now/static"] >>

\* glob(build.src, cwd): the entry files of a build rule, in order.
Glob(src) ==
    CASE src = "api/*.js" -> << "api/index.js" >>
      [] src = "lazy.js"  -> << "lazy.js" >>
      [] src = "*.html"   -> << "index.html" >>
      [] src = "api/**"   -> << "api/index.js", "api/index.ts" >>
      [] src = "**"       -> << "api/index.js", "api/index.ts", "index.html", "lazy.js" >>
      [] OTHER            -> << >>

\* The output path of an entry file that is copied as it is.
PathOf(entry) ==
    CASE entry = "api/index.js" -> K_api
      [] entry = "api/index.ts" -> K_apiTs
      [] entry = "lazy.js"      -> K_lazy
      [] entry = "index.html"   -> K_page

\* builder.build({entrypoint}): the partial artifact map one build returns.
\* @now/static gives a file at the entry's path; @now/node gives a Lambda
\* (api/index.ts is compiled to api/index.js).
BuilderOutput(use, entry) ==
    CASE use = "@now/static"    -> << << PathOf(entry), FileFsRef >> >>
      [] entry = "api/index.js" -> << << K_api, Lambda(TRUE) >> >>
      [] entry = "api/index.ts" -> << << K_api, Lambda(FALSE) >> >>
      [] entry = "lazy.js"      -> << << K_lazy, Lambda(FALSE) >> >>
      [] entry = "index.html"   -> << << K_page, FileFsRef >> >>
      [] OTHER                  -> EmptyMap

AssetKeys == { K_api, K_lazy, K_page }

\* now.json files.  env values are sequences of characters.
U_old == << "/", "o", "l", "d" >>
U_new == << "/", "n", "e", "w" >>

\* The route rules of the project's now.json: [{src: "^/old$", dest: "/new"}].
\* A route rule without a status has status 0.
ProjectRoutes ==
    << [src |-> << "^" >> \o U_old \o << "$" >>, hasDest |-> TRUE, dest |-> U_new,
        status |-> 0] >>

Config(version, env, buildEnv, hasBuilds) ==
    [exists |-> TRUE, version |-> version, env |-> env, buildEnv |-> buildEnv,
     hasBuilds |-> hasBuilds,
     builds |-> IF hasBuilds THEN ProjectBuilds ELSE << >>,
     routes |-> ProjectRoutes]

NoFile == [exists |-> FALSE, version |-> 0, env |-> {}, buildEnv |-> {},
           hasBuilds |-> FALSE, builds |-> << >>, routes |-> << >>]

PlainEnv  == { << "v", "1" >> }
SecretEnv == { << "@", "k" >> }

\* The cmd server reads only `builds` and `routes` of its now.json.
CmdConfigFiles ==
    { NoFile,
      Config(2, PlainEnv, {}, TRUE),
      Config(2, {}, {}, FALSE) }

ConfigFiles ==
    { NoFile,
      Config(2, PlainEnv, {}, TRUE),
      Config(2, {}, {}, FALSE),
      Config(1, {}, {}, TRUE),
      Config(2, SecretEnv, {}, TRUE),
      Config(2, {}, SecretEnv, TRUE) }

Plugins == { "@now/node", "@now/static", "@now/build-utils" }

\* err.message of the error a collaborator (file system, function creation
\* and invocation, static serving, request body) raises while request r is
\* handled: every error has a message of its own.
ErrMsgs(r) == { "E" \o ToString(r) }

\* ------------------------------------------------------------- the status

setStatusIdle == status' = "idle" /\ statusMessage' = ""

setStatusBusy(msg) == status' = "busy" /\ statusMessage' = msg

setStatusError(msg) == status' = "error" /\ statusMessage' = msg

\* ----------------------------------------------------------- the response

\* A body is the sequence of the strings written: << >> is no body.
NewRes == [finished |-> FALSE, statusCode |-> 200, body |-> << >>,
           headers |-> {}, by |-> None]

\* Mutant of BusyNotice: the notice leaves the busy reason out.
BusyNoticeWithoutReason(msg) == << "[busy] ", "", "..." >>

\* `[busy] ${this.statusMessage}...`
BusyNotice(msg) == << "[busy] ", msg, "..." >>

\* res.end(body), called by `by`.
End(r0, body, by) == [r0 EXCEPT !.finished = TRUE, !.body = body, !.by = by]

\* micro's send(res, code, body).
Send(r0, code, body, by) ==
    [r0 EXCEPT !.finished = TRUE, !.statusCode = code, !.body = body, !.by = by]

\* send(res, 200, stream): the stream is piped, the response ends later.
SendStream(r0, code, by) == [r0 EXCEPT !.statusCode = code, !.by = by]

\* cmd: if (!res.finished) send(res, 500, this.statusMessage)
Fallback(r0, msg) ==
    IF ~r0.finished THEN Send(r0, 500, << msg >>, "fallback") ELSE r0

\* Mutant of ErrorResponse: the body is read after setStatusIdle has emptied
\* the status message.
ErrorResponseAfterIdle(r0, msg) ==
    IF ~r0.finished THEN Send(r0, 500, << "" >>, "error") ELSE r0

\* lib: if (!res.finished) { res.statusCode = 500; res.end(this.statusMessage) }
ErrorResponse(r0, msg) ==
    IF ~r0.finished THEN Send(r0, 500, << msg >>, "error") ELSE r0

\* ------------------------------------------------------ build orchestration

\* installBuilders: the packages it installs, in order.
Builders(buildsConfig) ==
    SelectSeq([i \in DOMAIN buildsConfig |-> buildsConfig[i].use],
              LAMBDA pkg : pkg # "@now/static")
        \o << "@now/build-utils" >>

\* buildLambdas: the builder.build calls of a run, in loop order (for each
\* build rule, for each entry of its glob).
RECURSIVE BuildSteps(_, _)
BuildSteps(buildsConfig, i) ==
    IF i > Len(buildsConfig) THEN << >>
    ELSE [j \in DOMAIN Glob(buildsConfig[i].src) |->
             [use |-> buildsConfig[i].use, entry |-> Glob(buildsConfig[i].src)[j]]]
         \o BuildSteps(buildsConfig, i + 1)

NotBuilding == [phase |-> "none", i |-> 0]

\* A build run of process p is in progress (installing or building).
Building(p) == bidx[p].phase # "none"

\* The call builderCache.install(dir, builder) is made.
InstallCall(builder) ==
    installCalls' = [installCalls EXCEPT ![builder] = @ + 1]

\* installBuilders is entered by process p: the first install is called.
StartInstall(p) ==
    /\ bidx' = [bidx EXCEPT ![p] = [phase |-> "install", i |-> 1]]
    /\ InstallCall(Builders(nowJson.builds)[1])
    /\ UNCHANGED results

\* ------------------------------------------------------------ cmd: routing

\* url.replace(/^\//, '')
StripSlash(s) == IF Len(s) > 0 /\ s[1] = SLASH THEN Tail(s) ELSE s

\* The string a pattern without metacharacters other than a leading ^ and a
\* trailing $ matches.
PatternBody(src) ==
    LET a == IF Len(src) > 0 /\ src[1] = "^" THEN Tail(src) ELSE src
    IN  IF Len(a) > 0 /\ a[Len(a)] = "$" THEN SubSeq(a, 1, Len(a) - 1) ELSE a

\* accu.replace(new RegExp('^' + src + '$'), dest), for such a pattern and a
\* dest without capture references.
RegExpReplace(accu, src, dest) == IF accu = PatternBody(src) THEN dest ELSE accu

\* routes.reduce(...) of route().
RECURSIVE Reduce(_, _)
Reduce(routes, accu) ==
    IF routes = << >> THEN accu
    ELSE Reduce(Tail(routes),
                IF Head(routes).hasDest
                THEN RegExpReplace(accu, Head(routes).src, Head(routes).dest)
                ELSE accu)

matchHandler(m, url) ==
    CASE Has(m, url) -> Found(m, url)
      [] Has(m, url \o << "i", "n", "d", "e", "x", ".", "j", "s" >>) ->
            Found(m, url \o << "i", "n", "d", "e", "x", ".", "j", "s" >>)
      [] Has(m, url \o << "/", "i", "n", "d", "e", "x", ".", "j", "s" >>) ->
            Found(m, url \o << "/", "i", "n", "d", "e", "x", ".", "j", "s" >>)
      [] Has(m, url \o << "/", "i", "n", "d", "e", "x", ".", "h", "t", "m", "l" >>) ->
            Found(m, url \o << "/", "i", "n", "d", "e", "x", ".", "h", "t", "m", "l" >>)
      [] OTHER -> NoAsset

\* route(req, assets, routes): the handler found for the request.
route(url, m, routes) == matchHandler(m, Reduce(routes, StripSlash(url)))

\* ------------------------------------------------------------ frame groups

confVars  == << impl, nowJson, ignored, lookup >>
stopVars  == << stopPc, stopAssets, ops, destroyCalls, closeState >>
buildVars == << bidx, results, installCalls >>

\* Request r arrives: requests are numbered in the order of their arrival.
Arrives(r) == pc[r] = "new" /\ \A q \in Req : q < r => pc[q] # "new"

\* The handler of r has called collaborator c.
Did(r, c) == did' = [did EXCEPT ![r] = @ \cup {c}]

\* ----------------------------------------------------------- cmd: start()

\* start(): listen, then in the listen callback the initial build.
CmdStart ==
    /\ impl = "cmd" /\ startPc = "init" /\ running = Nobody
    /\ \E ok \in BOOLEAN :
         IF ~ok
         THEN \* the server emits 'error': reject
              /\ startPc' = "rejected"
              /\ UNCHANGED << status, statusMessage, listening, buildVars >>
         ELSE /\ listening' = TRUE
              /\ IF nowJson.exists /\ nowJson.hasBuilds
                 THEN /\ setStatusBusy("installing builders")
                      /\ StartInstall(StartProc)
                      /\ startPc' = "building"
                 ELSE /\ setStatusIdle
                      /\ startPc' = "resolved"
                      /\ UNCHANGED buildVars
    /\ UNCHANGED << confVars, stopVars, assets, pc, req, res, routed, asset,
                    failure, running, did >>

\* ------------------------------------------------- cmd: the request handler

\* The end of devServerHandler after the try block: the fallback response and
\* setStatusIdle.  msg is this.statusMessage as the fallback reads it.
CmdEnd(r, msg) ==
    /\ res' = [res EXCEPT ![r] = Fallback(@, msg)]
    /\ setStatusIdle
    /\ pc' = [pc EXCEPT ![r] = "done"]

\* The catch block of devServerHandler: setStatusError(err.message).
Catch(r, msg) ==
    /\ setStatusError(msg)
    /\ failure' = [failure EXCEPT ![r] = msg]
    /\ running' = r
    /\ pc' = [pc EXCEPT ![r] = "caught"]

\* devServerHandler, from the arrival of the request to its first await.
CmdRequest(r) ==
    /\ impl = "cmd" /\ listening /\ running = Nobody /\ Arrives(r)
    /\ \E url \in Urls(impl) :
        /\ req' = [req EXCEPT ![r] = url]
        /\ IF status = "busy"
           THEN /\ res' = [res EXCEPT ![r] = End(@, BusyNotice(statusMessage), "busy")]
                /\ pc' = [pc EXCEPT ![r] = "done"]
                /\ UNCHANGED << status, statusMessage, failure, running,
                                buildVars, did >>
           ELSE IF url = U_favicon
           THEN /\ res' = [res EXCEPT ![r] = End(@, << "" >>, "favicon")]
                /\ pc' = [pc EXCEPT ![r] = "done"]
                /\ UNCHANGED << status, statusMessage, failure, running,
                                buildVars, did >>
           ELSE IF ~nowJson.exists
           THEN \* serveStatics: lstatSync throws, or a file, or no file
                /\ Did(r, "config")
                /\ UNCHANGED buildVars
                /\ \/ \E m \in ErrMsgs(r) :
                        /\ Catch(r, m)
                        /\ UNCHANGED res
                   \/ /\ res' = [res EXCEPT ![r] =
                                   Fallback(SendStream(@, 200, "static"), statusMessage)]
                      /\ setStatusIdle
                      /\ pc' = [pc EXCEPT ![r] = "done"]
                      /\ UNCHANGED << failure, running >>
                   \/ /\ res' = [res EXCEPT ![r] =
                                   Fallback(Send(@, 404, << >>, "static"), statusMessage)]
                      /\ setStatusIdle
                      /\ pc' = [pc EXCEPT ![r] = "done"]
                      /\ UNCHANGED << failure, running >>
           ELSE IF nowJson.hasBuilds
           THEN \* serveBuilds -> buildUserProject
                /\ setStatusBusy("installing builders")
                /\ StartInstall(r)
                /\ did' = [did EXCEPT ![r] = @ \cup {"config", "build"}]
                /\ pc' = [pc EXCEPT ![r] = "building"]
                /\ UNCHANGED << res, failure, running >>
           ELSE /\ CmdEnd(r, statusMessage)
                /\ Did(r, "config")
                /\ UNCHANGED << failure, running, buildVars >>
    /\ UNCHANGED << confVars, stopVars, assets, listening, startPc, routed, asset >>

\* ------------------------------------------------------- the build run of p

\* The build run of p returned the artifact map out.
\*   cmd, start():  setStatusIdle and resolve.
\*   cmd, request:  buildUserProject sets idle and returns the assets to
\*                  serveBuilds, which routes the request; a Lambda is created
\*                  (await createFunction), anything else falls to the end of
\*                  the handler.
\*   lib, start():  this.assets = await buildUserProject(...); setStatusIdle.
Built(p, out) ==
    IF p = StartProc
    THEN /\ setStatusIdle
         /\ startPc' = "resolved"
         /\ assets' = IF impl = "lib" THEN out ELSE assets
         /\ UNCHANGED << pc, res, asset, failure, running, did >>
    ELSE LET found == route(req[p], out, nowJson.routes)
         IN  /\ asset' = [asset EXCEPT ![p] = found]
             /\ Did(p, "lookup")
             /\ IF found.type = "Lambda"
                THEN /\ setStatusIdle
                     /\ pc' = [pc EXCEPT ![p] = "creating"]
                     /\ UNCHANGED res
                ELSE CmdEnd(p, "")
             /\ UNCHANGED << assets, startPc, failure, running >>

\* The build run of p threw.
\*   cmd, start():  reject(err), and the callback goes on: setStatusIdle.
\*   cmd, request:  buildUserProject throws Error('Build failed.'), which the
\*                  handler catches.
\*   lib, start():  start() rejects; the status stays as the build left it.
BuildThrew(p) ==
    IF p = StartProc
    THEN /\ startPc' = "rejected"
         /\ IF impl = "cmd" THEN setStatusIdle ELSE UNCHANGED << status, statusMessage >>
         /\ UNCHANGED << assets, pc, res, asset, failure, running, did >>
    ELSE /\ Catch(p, "Build failed.")
         /\ UNCHANGED << assets, startPc, res, asset, did >>

\* buildUserProject of ./dev-builder: the status message while the builders
\* run.
LibBuildingMessage == "building"

\* The status message while the builders run.
BuildingMessage == IF impl = "cmd" THEN "building lambdas" ELSE LibBuildingMessage

\* An `await builderCache.install(...)` of installBuilders completes.
InstallDone(p) ==
    /\ running = Nobody /\ bidx[p].phase = "install"
    /\ LET builders == Builders(nowJson.builds)
           steps    == BuildSteps(nowJson.builds, 1)
           i        == bidx[p].i
       IN \E ok \in BOOLEAN :
            IF ~ok
            THEN /\ BuildThrew(p)
                 /\ bidx' = [bidx EXCEPT ![p] = NotBuilding]
                 /\ UNCHANGED << results, installCalls >>
            ELSE IF i < Len(builders)
            THEN /\ bidx' = [bidx EXCEPT ![p] = [phase |-> "install", i |-> i + 1]]
                 /\ InstallCall(builders[i + 1])
                 /\ UNCHANGED << results, status, statusMessage, assets, startPc,
                                 pc, res, asset, failure, running, did >>
            ELSE IF steps # << >>
            THEN \* buildLambdas: results = {}, the first build is called
                 /\ setStatusBusy(BuildingMessage)
                 /\ bidx' = [bidx EXCEPT ![p] = [phase |-> "build", i |-> 1]]
                 /\ results' = [results EXCEPT ![p] = EmptyMap]
                 /\ UNCHANGED << installCalls, assets, startPc, pc, res, asset,
                                 failure, running, did >>
            ELSE /\ Built(p, EmptyMap)
                 /\ bidx' = [bidx EXCEPT ![p] = NotBuilding]
                 /\ UNCHANGED << results, installCalls >>
    /\ UNCHANGED << confVars, stopVars, listening, req, routed >>

\* Mutant of BuildDone: a build that throws is skipped, and the run returns
\* what the other builds produced.
BuildDoneKeepsPartial(p) ==
    /\ running = Nobody /\ bidx[p].phase = "build"
    /\ LET steps == BuildSteps(nowJson.builds, 1)
           i     == bidx[p].i
       IN \E ok \in BOOLEAN :
            LET out == IF ok THEN Spread(results[p],
                                         BuilderOutput(steps[i].use, steps[i].entry))
                       ELSE results[p]
            IN  IF i < Len(steps)
                THEN /\ bidx' = [bidx EXCEPT ![p] = [phase |-> "build", i |-> i + 1]]
                     /\ results' = [results EXCEPT ![p] = out]
                     /\ UNCHANGED << status, statusMessage, assets, startPc, pc, res,
                                     asset, failure, running, did >>
                ELSE /\ Built(p, out)
                     /\ bidx' = [bidx EXCEPT ![p] = NotBuilding]
                     /\ results' = [results EXCEPT ![p] = out]
    /\ UNCHANGED << confVars, stopVars, listening, req, routed, installCalls >>

\* An `await builder.build(...)` of buildLambdas completes:
\* results = {...results, ...output}, or the error leaves the run.
BuildDone(p) ==
    /\ running = Nobody /\ bidx[p].phase = "build"
    /\ LET steps == BuildSteps(nowJson.builds, 1)
           i     == bidx[p].i
           out   == Spread(results[p], BuilderOutput(steps[i].use, steps[i].entry))
       IN \E ok \in BOOLEAN :
            IF ~ok
            THEN /\ BuildThrew(p)
                 /\ bidx' = [bidx EXCEPT ![p] = NotBuilding]
                 /\ results' = [results EXCEPT ![p] = EmptyMap]
            ELSE IF i < Len(steps)
            THEN /\ bidx' = [bidx EXCEPT ![p] = [phase |-> "build", i |-> i + 1]]
                 /\ results' = [results EXCEPT ![p] = out]
                 /\ UNCHANGED << status, statusMessage, assets, startPc, pc, res,
                                 asset, failure, running, did >>
            ELSE /\ Built(p, out)
                 /\ bidx' = [bidx EXCEPT ![p] = NotBuilding]
                 /\ results' = [results EXCEPT ![p] = out]
    /\ UNCHANGED << confVars, stopVars, listening, req, routed, installCalls >>

\* ------------------------------------------- cmd: the request handler, cont.

\* `await createFunction(...)` completes; fn(...) is called.
CmdCreated(r) ==
    /\ impl = "cmd" /\ running = Nobody /\ pc[r] = "creating"
    /\ \/ /\ pc' = [pc EXCEPT ![r] = "invoking"]
          /\ Did(r, "invoke")
          /\ UNCHANGED << status, statusMessage, failure, running >>
       \/ \E m \in ErrMsgs(r) :
            /\ Catch(r, m)
            /\ UNCHANGED did
    /\ UNCHANGED << confVars, stopVars, buildVars, assets, listening, startPc,
                    req, res, routed, asset >>

\* `await fn(...)` completes; the handler reaches its end.
CmdInvoked(r) ==
    /\ impl = "cmd" /\ running = Nobody /\ pc[r] = "invoking"
    /\ \/ /\ CmdEnd(r, statusMessage)
          /\ UNCHANGED << failure, running >>
       \/ \E m \in ErrMsgs(r) :
            /\ Catch(r, m)
            /\ UNCHANGED res
    /\ UNCHANGED << confVars, stopVars, buildVars, assets, listening, startPc,
                    req, routed, asset, did >>

\* Mutant of Caught: the handler ends without setStatusIdle.
CaughtWithoutIdle(r) ==
    /\ running = r /\ pc[r] = "caught"
    /\ res' = [res EXCEPT ![r] = IF impl = "cmd" THEN Fallback(@, statusMessage)
                                 ELSE ErrorResponse(@, statusMessage)]
    /\ running' = Nobody
    /\ pc' = [pc EXCEPT ![r] = "done"]
    /\ UNCHANGED << confVars, stopVars, buildVars, assets, listening, startPc,
                    req, routed, asset, failure, did, status, statusMessage >>

\* After the catch block: the 500 response with this.statusMessage unless the
\* response is finished, then setStatusIdle.
\*   cmd: if (!res.finished) send(res, 500, this.statusMessage)
\*   lib: if (!res.finished) { res.statusCode = 500; res.end(this.statusMessage) }
Caught(r) ==
    /\ running = r /\ pc[r] = "caught"
    /\ res' = [res EXCEPT ![r] = IF impl = "cmd" THEN Fallback(@, statusMessage)
                                 ELSE ErrorResponse(@, statusMessage)]
    /\ setStatusIdle
    /\ running' = Nobody
    /\ pc' = [pc EXCEPT ![r] = "done"]
    /\ UNCHANGED << confVars, stopVars, buildVars, assets, listening, startPc,
                    req, routed, asset, failure, did >>

\* ------------------------------------------------------- lib: the resolver

\* \w of a regular expression.
WordChars ==
    { "a", "b", "c", "d", "e", "f", "g", "h", "i", "j", "k", "l", "m", "n", "o",
      "p", "q", "r", "s", "t", "u", "v", "w", "x", "y", "z",
      "A", "B", "C", "D", "E", "F", "G", "H", "I", "J", "K", "L", "M", "N", "O",
      "P", "Q", "R", "S", "T", "U", "V", "W", "X", "Y", "Z",
      "0", "1", "2", "3", "4", "5", "6", "7", "8", "9", "_" }

\* t matches ^index(\.\w+)?$
IndexTail(t) ==
    /\ Len(t) >= 5
    /\ SubSeq(t, 1, 5) = << "i", "n", "d", "e", "x" >>
    /\ \/ Len(t) = 5
       \/ /\ Len(t) >= 7
          /\ t[6] = "."
          /\ \A j \in 7..Len(t) : t[j] \in WordChars

\* /\/?index(\.\w+)?$/ matches name from position i.
IndexMatchAt(name, i) ==
    LET t == SubSeq(name, i, Len(name))
    IN  \/ IndexTail(t)
        \/ Len(t) > 0 /\ t[1] = SLASH /\ IndexTail(Tail(t))

\* name.replace(/\/?index(\.\w+)?$/, ''): the leftmost match is removed.
WithoutIndex(name) ==
    LET at == { i \in 1..Len(name) : IndexMatchAt(name, i) }
    IN  IF at = {} THEN name
        ELSE SubSeq(name, 1, (CHOOSE i \in at : \A j \in at : i <= j) - 1)

\* assetKey.replace(/\/$/, '')
StripTrailingSlash(s) ==
    IF Len(s) > 0 /\ s[Len(s)] = SLASH THEN SubSeq(s, 1, Len(s) - 1) ELSE s

\* Mutant of resolveDest: the index search comes before the exact key.
resolveDestIndexFirst(m, dest) ==
    LET assetKey == StripSlash(dest)
        isIndex(i) == WithoutIndex(m[i][1]) = StripTrailingSlash(assetKey)
        at == { i \in DOMAIN m : isIndex(i) }
        first == CHOOSE i \in at : \A j \in at : i <= j
    IN  IF at # {} /\ m[first][1] # << >> THEN Found(m, m[first][1])
        ELSE IF Has(m, assetKey) THEN Found(m, assetKey)
        ELSE NoAsset

\* resolveDest(assets, dest): the exact key, else the first key (in the
\* object's key order) that is an index of dest.
resolveDest(m, dest) ==
    LET assetKey == StripSlash(dest)
        isIndex(i) == WithoutIndex(m[i][1]) = StripTrailingSlash(assetKey)
        at == { i \in DOMAIN m : isIndex(i) }
        first == CHOOSE i \in at : \A j \in at : i <= j
    IN  IF Has(m, assetKey) THEN Found(m, assetKey)
        ELSE IF at # {} /\ m[first][1] # << >> THEN Found(m, m[first][1])
        ELSE NoAsset

\* ------------------------------------------------------ lib: collaborators

\* isURL(dest) of ./is-url: dest is a fully-qualified URL.
isURL(dest) ==
    /\ Len(dest) >= 7
    /\ SubSeq(dest, 1, 7) = << "h", "t", "t", "p", ":", "/", "/" >>

Location == << "Location", "/new" >>

\* What devRouter(req.url, nowJson.routes) of ./dev-router can return:
\* {dest, status, headers}.
RouteResults ==
    { [dest |-> U_api,   status |-> 200, headers |-> {}],
      [dest |-> U_lazy,  status |-> 200, headers |-> {}],
      [dest |-> U_page,  status |-> 200, headers |-> {<< "x-powered-by", "now" >>}],
      [dest |-> U_new,   status |-> 200, headers |-> {}],
      [dest |-> U_proxy, status |-> 200, headers |-> {}],
      [dest |-> U_proxy, status |-> 302, headers |-> {Location}],
      [dest |-> U_old,   status |-> 301, headers |-> {Location}],
      [dest |-> U_old,   status |-> 302, headers |-> {Location}],
      [dest |-> U_old,   status |-> 303, headers |-> {}] }

NoRoute == [dest |-> << >>, status |-> 0, headers |-> {}]

\* validateNowConfig(config): the message of the error it throws (written
\* without its backquotes), or None.
validateNowConfig(config) ==
    IF config.version # 2
    THEN "Only version: 2 is supported by now dev"
    ELSE IF \E val \in config.env \cup config.buildEnv : Len(val) > 0 /\ val[1] = "@"
    THEN "Secret env vars are not yet supported by now dev"
    ELSE None

\* ----------------------------------------------------------- lib: start()

\* buildUserProject(nowJson, devServer) of ./dev-builder is entered: the
\* status is Busy("installing builders") and the builders are installed; the
\* run goes on as InstallDone and BuildDone.
LibBuildUserProject ==
    /\ setStatusBusy("installing builders")
    /\ StartInstall(StartProc)

\* start() calls getNowJson() and listen(server, port).
LibStart ==
    /\ impl = "lib" /\ startPc = "init" /\ running = Nobody
    /\ \E ok \in BOOLEAN :
         IF ok THEN listening' = TRUE /\ startPc' = "config"
         ELSE listening' = FALSE /\ startPc' = "rejected"
    /\ UNCHANGED << confVars, stopVars, buildVars, status, statusMessage, assets,
                    pc, req, res, routed, asset, failure, running, did >>

\* `await Promise.all([getNowJson(), listen])` completes: start() rejects on
\* an invalid configuration, runs the initial build if there are builds, and
\* else sets the status idle.
LibStartConfig ==
    /\ impl = "lib" /\ startPc = "config" /\ running = Nobody
    /\ IF nowJson.exists /\ validateNowConfig(nowJson) # None
       THEN /\ startPc' = "rejected"
            /\ UNCHANGED << status, statusMessage, buildVars >>
       ELSE IF nowJson.exists /\ nowJson.hasBuilds
       THEN /\ LibBuildUserProject
            /\ startPc' = "building"
       ELSE /\ setStatusIdle
            /\ startPc' = "resolved"
            /\ UNCHANGED buildVars
    /\ UNCHANGED << confVars, stopVars, assets, listening, pc, req, res, routed,
                    asset, failure, running, did >>

\* ------------------------------------------------- lib: the request handler

\* The handler returns normally: setStatusIdle.
LibEnd(r) ==
    /\ setStatusIdle
    /\ pc' = [pc EXCEPT ![r] = "done"]

\* devServerHandler, from the arrival of the request to `await getNowJson()`.
LibRequest(r) ==
    /\ impl = "lib" /\ listening /\ running = Nobody /\ Arrives(r)
    /\ \E url \in Urls(impl) : req' = [req EXCEPT ![r] = url]
    /\ IF status = "busy"
       THEN /\ res' = [res EXCEPT ![r] = End(@, BusyNotice(statusMessage), "busy")]
            /\ pc' = [pc EXCEPT ![r] = "done"]
            /\ UNCHANGED did
       ELSE /\ pc' = [pc EXCEPT ![r] = "config"]
            /\ Did(r, "config")
            /\ UNCHANGED res
    /\ UNCHANGED << confVars, stopVars, buildVars, status, statusMessage, assets,
                    listening, startPc, routed, asset, failure, running >>

\* Mutant of Dispatch: a Lambda is invoked whether or not it has a handle.
DispatchInvokesUnbuilt(rt, hasBuilds, found) ==
    IF isURL(rt.dest) THEN "proxy"
    ELSE IF rt.status \in {301, 302, 303} THEN "redirect"
    ELSE IF ~hasBuilds THEN "statics"
    ELSE IF found.type = "undefined" THEN "notfound"
    ELSE IF found.type = "FileFsRef" THEN "file"
    ELSE IF found.type = "Lambda" THEN "lambda"
    ELSE "default"

\* Mutant of Dispatch: the redirect test comes before the proxy test.
DispatchRedirectFirst(rt, hasBuilds, found) ==
    IF rt.status \in {301, 302, 303} THEN "redirect"
    ELSE IF isURL(rt.dest) THEN "proxy"
    ELSE IF ~hasBuilds THEN "statics"
    ELSE IF found.type = "undefined" THEN "notfound"
    ELSE IF found.type = "FileFsRef" THEN "file"
    ELSE IF found.type = "Lambda" THEN (IF found.fn THEN "lambda" ELSE "unbuilt")
    ELSE "default"

\* Mutant of Dispatch: only 302 is taken for a redirect.
DispatchRedirect302Only(rt, hasBuilds, found) ==
    IF isURL(rt.dest) THEN "proxy"
    ELSE IF rt.status = 302 THEN "redirect"
    ELSE IF ~hasBuilds THEN "statics"
    ELSE IF found.type = "undefined" THEN "notfound"
    ELSE IF found.type = "FileFsRef" THEN "file"
    ELSE IF found.type = "Lambda" THEN (IF found.fn THEN "lambda" ELSE "unbuilt")
    ELSE "default"

\* The branch serveProjectAsNowV2 takes for the route result rt, with found
\* what resolveDest returns (asked for only past the first three tests).
Dispatch(rt, hasBuilds, found) ==
    IF isURL(rt.dest) THEN "proxy"
    ELSE IF rt.status \in {301, 302, 303} THEN "redirect"
    ELSE IF ~hasBuilds THEN "statics"
    ELSE IF found.type = "undefined" THEN "notfound"
    ELSE IF found.type = "FileFsRef" THEN "file"
    ELSE IF found.type = "Lambda" THEN (IF found.fn THEN "lambda" ELSE "unbuilt")
    ELSE "default"

\* Object.entries(headers).forEach(([name, value]) => res.setHeader(name, value))
SetHeaders(r0, headers) == [r0 EXCEPT !.headers = @ \cup headers]

\* serveProjectAsNowV2 up to its first await, for the route result rt.
ServeProjectAsNowV2(r, rt) ==
    LET withHeaders == SetHeaders(res[r], rt.headers)
        found       == resolveDest(assets, rt.dest)
        branch      == Dispatch(rt, nowJson.hasBuilds, found)
        looksUp     == branch \notin {"proxy", "redirect", "statics"}
        awaits      == branch \in {"statics", "file", "lambda"}
    IN  /\ routed' = [routed EXCEPT ![r] = rt]
        /\ asset' = [asset EXCEPT ![r] = IF looksUp THEN found ELSE @]
        /\ did' = [did EXCEPT ![r] =
                     @ \cup {"route"}
                       \cup (IF looksUp THEN {"lookup"} ELSE {})
                       \cup (CASE branch = "proxy" -> {"proxy"}
                               [] branch \in {"statics", "file"} -> {"static"}
                               [] branch = "lambda" -> {"body"}
                               [] OTHER -> {})]
        /\ res' = [res EXCEPT ![r] =
                     CASE branch = "proxy"    -> [withHeaders EXCEPT !.by = "proxy"]
                       [] branch = "redirect" -> End(withHeaders, << >>, "redirect")
                       [] branch = "notfound" -> Send(withHeaders, 404, << >>, "notfound")
                       [] branch = "unbuilt"  ->
                            Send(withHeaders, 500,
                                 << "Lambda function has not been built" >>, "unbuilt")
                       [] branch = "default"  -> Send(withHeaders, 500, << >>, "default")
                       [] OTHER               -> withHeaders]
        /\ IF awaits
           THEN \* await serveStaticFile(...), or await rawBody(req)
                /\ pc' = [pc EXCEPT ![r] = IF branch = "lambda" THEN "body" ELSE "static"]
                /\ UNCHANGED << status, statusMessage >>
           ELSE LibEnd(r)

\* `await this.getNowJson()` completes in the handler.
LibConfig(r) ==
    /\ impl = "lib" /\ running = Nobody /\ pc[r] = "config"
    /\ IF ~nowJson.exists
       THEN \* serveProjectAsStatics: await createIgnoreList(cwd)
            /\ pc' = [pc EXCEPT ![r] = "ignore"]
            /\ UNCHANGED << status, statusMessage, res, routed, asset, failure,
                            running, did >>
       ELSE IF validateNowConfig(nowJson) # None
       THEN /\ Catch(r, validateNowConfig(nowJson))
            /\ UNCHANGED << res, routed, asset, did >>
       ELSE /\ \E rt \in RouteResults : ServeProjectAsNowV2(r, rt)
            /\ UNCHANGED << failure, running >>
    /\ UNCHANGED << confVars, stopVars, buildVars, assets, listening, startPc, req >>

\* `await createIgnoreList(cwd)` completes: 404 for a path the list ignores,
\* else serveStaticFile(req, res, cwd).
LibIgnore(r) ==
    /\ impl = "lib" /\ running = Nobody /\ pc[r] = "ignore"
    /\ \/ LET filePath == StripSlash(req[r])
          IN  IF filePath # << >> /\ filePath \in ignored
              THEN /\ res' = [res EXCEPT ![r] = Send(@, 404, << >>, "ignored")]
                   /\ LibEnd(r)
                   /\ UNCHANGED << failure, running, did >>
              ELSE /\ pc' = [pc EXCEPT ![r] = "static"]
                   /\ Did(r, "static")
                   /\ UNCHANGED << status, statusMessage, res, failure, running >>
       \/ \E m \in ErrMsgs(r) :
            /\ Catch(r, m)
            /\ UNCHANGED << res, did >>
    /\ UNCHANGED << confVars, stopVars, buildVars, assets, listening, startPc,
                    req, routed, asset >>

\* The promise of serveStaticFile (serve-handler) settles.
LibStatic(r) ==
    /\ impl = "lib" /\ running = Nobody /\ pc[r] = "static"
    /\ \/ /\ res' = [res EXCEPT ![r] = End(@, << "file" >>, "static")]
          /\ LibEnd(r)
          /\ UNCHANGED << failure, running >>
       \/ \E m \in ErrMsgs(r) :
            /\ Catch(r, m)
            /\ UNCHANGED res
    /\ UNCHANGED << confVars, stopVars, buildVars, assets, listening, startPc,
                    req, routed, asset, did >>

\* `await rawBody(req)` completes; asset.fn({Action: 'Invoke', body}) is called.
LibBody(r) ==
    /\ impl = "lib" /\ running = Nobody /\ pc[r] = "body"
    /\ \/ /\ pc' = [pc EXCEPT ![r] = "invoking"]
          /\ Did(r, "invoke")
          /\ UNCHANGED << status, statusMessage, failure, running >>
       \/ \E m \in ErrMsgs(r) :
            /\ Catch(r, m)
            /\ UNCHANGED did
    /\ UNCHANGED << confVars, stopVars, buildVars, assets, listening, startPc,
                    req, res, routed, asset >>

\* Buffer.from(body, 'base64'), for the bodies the functions return.
Base64Decode(body) ==
    CASE body = "eyJlaXlvIjp0cnVlfQ==" -> "{\"eiyo\":true}"
      [] body = "" -> ""
      [] OTHER -> "?"

\* The InvokeResults the function returns.
InvokeResults ==
    { [statusCode |-> 200, headers |-> {<< "content-type", "application/json" >>},
       encoding |-> "base64", body |-> "eyJlaXlvIjp0cnVlfQ=="] }

\* `await asset.fn(...)` completes: the result is written to the response.
LibInvoked(r) ==
    /\ impl = "lib" /\ running = Nobody /\ pc[r] = "invoking"
    /\ \/ \E result \in InvokeResults :
            /\ res' = [res EXCEPT ![r] =
                  Send([@ EXCEPT !.headers = @ \cup result.headers],
                       result.statusCode,
                       << IF result.encoding = "base64"
                          THEN Base64Decode(result.body) ELSE result.body >>,
                       "lambda")]
            /\ LibEnd(r)
            /\ UNCHANGED << failure, running >>
       \/ \E m \in ErrMsgs(r) :
            /\ Catch(r, m)
            /\ UNCHANGED res
    /\ UNCHANGED << confVars, stopVars, buildVars, assets, listening, startPc,
                    req, routed, asset, did >>

\* ------------------------------------------------------------ lib: stop()

\* The keys of m whose artifact stop() destroys: a Lambda with a handle.
Destroyable(m) ==
    { k \in Keys(m) : Get(m, k).type = "Lambda" /\ Get(m, k).fn }

\* stop(): asset.fn.destroy() is called for every Lambda of this.assets that
\* has a handle, then close(server); stop() awaits Promise.all(ops).
Stop ==
    /\ impl = "lib" /\ running = Nobody /\ stopPc = "init" /\ startPc # "init"
    /\ ops' = [k \in AssetKeys |->
                 IF k \in Destroyable(assets) THEN "pending" ELSE ops[k]]
    /\ destroyCalls' = [k \in AssetKeys |->
                 IF k \in Destroyable(assets) THEN destroyCalls[k] + 1
                 ELSE destroyCalls[k]]
    /\ stopAssets' = assets
    /\ closeState' = IF listening THEN "pending" ELSE "failed"
    /\ listening' = FALSE
    /\ stopPc' = "waiting"
    /\ UNCHANGED << confVars, buildVars, status, statusMessage, assets, startPc,
                    pc, req, res, routed, asset, failure, running, did >>

\* The promise of a destroy() call settles.
DestroyDone(k) ==
    /\ running = Nobody /\ ops[k] = "pending"
    /\ \E ok \in BOOLEAN :
         ops' = [ops EXCEPT ![k] = IF ok THEN "done" ELSE "failed"]
    /\ UNCHANGED << confVars, buildVars, status, statusMessage, assets, listening,
                    startPc, pc, req, res, routed, asset, failure, running,
                    stopPc, stopAssets, destroyCalls, closeState, did >>

\* The callback of server.close() is called without an error.
CloseDone ==
    /\ running = Nobody /\ closeState = "pending"
    /\ closeState' = "closed"
    /\ UNCHANGED << confVars, buildVars, status, statusMessage, assets, listening,
                    startPc, pc, req, res, routed, asset, failure, running,
                    stopPc, stopAssets, ops, destroyCalls, did >>

\* Mutant of StopSettle: stop() awaits close(server) only.
StopSettleCloseOnly ==
    /\ running = Nobody /\ stopPc = "waiting"
    /\ IF closeState = "failed"
       THEN stopPc' = "threw"
       ELSE /\ closeState = "closed"
            /\ stopPc' = "returned"
    /\ UNCHANGED << confVars, buildVars, status, statusMessage, assets, listening,
                    startPc, pc, req, res, routed, asset, failure, running,
                    stopAssets, ops, destroyCalls, closeState, did >>

\* `await Promise.all(ops)` completes: it rejects as soon as one promise has
\* rejected, and resolves once all have resolved.
StopSettle ==
    /\ running = Nobody /\ stopPc = "waiting"
    /\ IF closeState = "failed" \/ \E k \in AssetKeys : ops[k] = "failed"
       THEN stopPc' = "threw"
       ELSE /\ closeState = "closed"
            /\ \A k \in AssetKeys : ops[k] # "pending"
            /\ stopPc' = "returned"
    /\ UNCHANGED << confVars, buildVars, status, statusMessage, assets, listening,
                    startPc, pc, req, res, routed, asset, failure, running,
                    stopAssets, ops, destroyCalls, closeState, did >>

\* ------------------------------------------------------- the specification

\* The ignore lists of the projects.  Only the lib server has an ignore list,
\* and only a project without builds is served from its directory.
IgnoreLists(variant, config) ==
    IF variant = "lib" /\ ~config.hasBuilds
    THEN { {}, { StripSlash(U_api) } }
    ELSE { {} }

\* The fields of a DevServer after its constructor, with no request yet.
Fresh ==
    /\ status = "busy"
    /\ statusMessage = ""
    /\ assets = EmptyMap
    /\ listening = FALSE
    /\ startPc = "init"
    /\ pc = [r \in Req |-> "new"]
    /\ req = [r \in Req |-> << >>]
    /\ res = [r \in Req |-> NewRes]
    /\ routed = [r \in Req |-> NoRoute]
    /\ asset = [r \in Req |-> Unset]
    /\ failure = [r \in Req |-> None]
    /\ running = Nobody
    /\ bidx = [p \in Proc |-> NotBuilding]
    /\ results = [p \in Proc |-> EmptyMap]
    /\ installCalls = [u \in Plugins |-> 0]
    /\ stopPc = "init"
    /\ stopAssets = EmptyMap
    /\ ops = [k \in AssetKeys |-> "none"]
    /\ destroyCalls = [k \in AssetKeys |-> 0]
    /\ closeState = "none"
    /\ did = [r \in Req |-> {}]

\* No lookup function has been called on its own.
NoLookup == [fn |-> "none", assets |-> EmptyMap, dest |-> << >>, routes |-> << >>,
             reqDest |-> << >>, found |-> Unset]

\* The state after `new DevServer(cwd, ...)`.
Init ==
    /\ impl \in { "cmd", "lib" }
    /\ nowJson \in IF impl = "cmd" THEN CmdConfigFiles ELSE ConfigFiles
    /\ ignored \in IgnoreLists(impl, nowJson)
    /\ lookup = NoLookup
    /\ Fresh

Next ==
    \/ CmdStart
    \/ LibStart
    \/ LibStartConfig
    \/ \E p \in Proc : InstallDone(p)
    \/ \E p \in Proc : BuildDone(p)
    \/ \E r \in Req : CmdRequest(r)
    \/ \E r \in Req : CmdCreated(r)
    \/ \E r \in Req : CmdInvoked(r)
    \/ \E r \in Req : Caught(r)
    \/ \E r \in Req : LibRequest(r)
    \/ \E r \in Req : LibConfig(r)
    \/ \E r \in Req : LibIgnore(r)
    \/ \E r \in Req : LibStatic(r)
    \/ \E r \in Req : LibBody(r)
    \/ \E r \in Req : LibInvoked(r)
    \/ Stop
    \/ \E k \in AssetKeys : DestroyDone(k)
    \/ CloseDone
    \/ StopSettle

Spec == Init /\ [][Next]_vars

\* ------------------------------------------- the lookup functions on their own

\* Number of keys of the artifact maps the lookup functions are called with.
MaxKeys == 2

U_apiSlash == << "/", "a", "p", "i", "/" >>
U_apiIndex == << "/" >> \o K_api
U_foo      == << "/", "f", "o", "o" >>
U_root     == << "/" >>

K_apiSlash == << "a", "p", "i", "/" >>
K_apiFile  == << "a", "p", "i" >>
K_apiHtml  == << "a", "p", "i", "/", "i", "n", "d", "e", "x", ".", "h", "t", "m", "l" >>
K_fooindex == << "f", "o", "o", "i", "n", "d", "e", "x", ".", "j", "s" >>
K_fooIndex == << "f", "o", "o", "/", "i", "n", "d", "e", "x", ".", "j", "s" >>
K_old      == << "o", "l", "d" >>
K_new      == << "n", "e", "w" >>
K_moved    == << "m", "o", "v", "e", "d" >>

\* The output paths of the artifact maps.
LookupKeys ==
    { K_api, K_apiSlash, K_apiFile, K_apiHtml, K_fooindex, K_fooIndex, K_page,
      K_old, K_new, K_moved }

\* The artifact built for an output path.
ArtifactOf(k) == IF k \in { K_page, K_apiHtml } THEN FileFsRef ELSE Lambda(TRUE)

\* The artifact maps of at most MaxKeys keys, in every key order.
LookupMaps ==
    UNION { { [i \in 1..n |-> << q[i], ArtifactOf(q[i]) >>] :
                q \in { f \in [1..n -> LookupKeys] :
                          \A i, j \in 1..n : i # j => f[i] # f[j] } } :
            n \in 0..MaxKeys }

\* The destinations looked up (request urls, for route()).
LookupDests == { U_apiSlash, U_api, U_apiIndex, U_foo, U_root, U_page, U_old, U_new }

\* A route rule {src: "^<path>$", dest, status}.
Rule(path, dest, code) ==
    [src |-> << "^" >> \o path \o << "$" >>, hasDest |-> TRUE, dest |-> dest,
     status |-> code]

\* The route lists route() is called with: none, the project's, a chain of two
\* rewrites, two rules for one path, a redirect followed by a rewrite of its
\* destination, a proxy target followed by a rewrite of it.
RouteLists ==
    { << >>,
      ProjectRoutes,
      << Rule(K_old, K_moved, 0), Rule(K_moved, K_new, 0) >>,
      << Rule(K_old, K_new, 0), Rule(K_old, K_moved, 0) >>,
      << Rule(K_old, K_moved, 301), Rule(K_moved, K_new, 0) >>,
      << Rule(K_old, U_proxy, 0), Rule(U_proxy, K_new, 0) >> }

\* Every variable but lookup.
serverVars ==
    << impl, nowJson, ignored, status, statusMessage, assets, listening, startPc,
       pc, req, res, routed, asset, failure, running, bidx, results,
       installCalls, stopPc, stopAssets, ops, destroyCalls, closeState, did >>

\* resolveDest(assets, dest) is called.
ResolveDestCall ==
    /\ impl = "lib" /\ lookup = NoLookup
    /\ \E m \in LookupMaps, dest \in LookupDests :
         lookup' = [fn |-> "resolveDest", assets |-> m, dest |-> dest,
                    routes |-> << >>, reqDest |-> StripSlash(dest),
                    found |-> resolveDest(m, dest)]
    /\ UNCHANGED serverVars

\* matchHandler(assets, url) is called, with the url route() passes when
\* there are no routes: req.url.replace(/^\//, '').
MatchHandlerCall ==
    /\ impl = "cmd" /\ lookup = NoLookup
    /\ \E m \in LookupMaps, dest \in LookupDests :
         lookup' = [fn |-> "matchHandler", assets |-> m, dest |-> dest,
                    routes |-> << >>, reqDest |-> StripSlash(dest),
                    found |-> matchHandler(m, StripSlash(dest))]
    /\ UNCHANGED serverVars

\* route(req, assets, routes) is called; reqDest is its local variable when
\* matchHandler is called.
RouteCall ==
    /\ impl = "cmd" /\ lookup = NoLookup
    /\ \E m \in LookupMaps, url \in LookupDests, routes \in RouteLists \ { << >> } :
         lookup' = [fn |-> "route", assets |-> m, dest |-> url,
                    routes |-> routes, reqDest |-> Reduce(routes, StripSlash(url)),
                    found |-> route(url, m, routes)]
    /\ UNCHANGED serverVars

LookupInit ==
    /\ impl \in { "cmd", "lib" }
    /\ nowJson = NoFile
    /\ ignored = {}
    /\ lookup = NoLookup
    /\ Fresh

LookupNext == ResolveDestCall \/ MatchHandlerCall \/ RouteCall

LookupSpec == LookupInit /\ [][LookupNext]_vars

\* ------------------------------------------------ the build run on its own

\* Number of build rules of the now.json files of BuildSpec.
MaxRules == 2

\* Build rules whose outputs collide: api/index.js is built by api/*.js, and
\* again (from api/index.ts) by api/**; @now/static copies the files the
\* @now/node rules build.
BuildRules ==
    { [src |-> "api/*.js", use |-> "@now/node"],
      [src |-> "lazy.js",  use |-> "@now/node"],
      [src |-> "*.html",   use |-> "@now/static"],
      [src |-> "api/**",   use |-> "@now/node"],
      [src |-> "**",       use |-> "@now/static"] }

\* The now.json files with one to MaxRules of these build rules, in any order.
BuildConfigs ==
    { [Config(2, {}, {}, TRUE) EXCEPT !.builds = b] :
        b \in UNION { [1..n -> BuildRules] : n \in 1..MaxRules } }

\* The cmd server is constructed in a project of BuildConfigs.
BuildInit ==
    /\ impl = "cmd"
    /\ nowJson \in BuildConfigs
    /\ ignored = {}
    /\ lookup = NoLookup
    /\ Fresh

\* start() and its build run.
BuildNext ==
    \/ CmdStart
    \/ InstallDone(StartProc)
    \/ BuildDone(StartProc)

BuildSpec == BuildInit /\ [][BuildNext]_vars

\* ================================================================== claims

\* The processes whose build run is in progress.
BuildsInProgress == { p \in Proc : Building(p) }

\* C1: at most one build (orchestration run) is in progress at any time,
\* whatever the interleaving of start() and the request handlers.
C1_OneBuildAtATime == Cardinality(BuildsInProgress) <= 1

\* C2: a request that arrives while the status is busy is answered at once
\* with the busy notice holding the current busy reason; its handler reads no
\* configuration, routes nothing, builds nothing, looks no artifact up, invokes
\* nothing, and leaves the status and the status message as they were.
C2_BusyRequestAnsweredAtOnce ==
    [][\A r \in Req :
         (pc[r] = "new" /\ pc'[r] # "new" /\ status = "busy") =>
            /\ pc'[r] = "done"
            /\ res'[r].finished
            /\ res'[r].body = << "[busy] ", statusMessage, "..." >>
            /\ did'[r] = {}
            /\ routed'[r] = NoRoute /\ asset'[r] = Unset /\ failure'[r] = None
            /\ UNCHANGED << status, statusMessage, assets, bidx, results,
                            installCalls >>]_vars

\* C2 witness: a request was answered with the notice of a build in progress.
C2_Witness ==
    \E r \in Req :
        /\ pc[r] = "done"
        /\ res[r].body = << "[busy] ", "installing builders", "..." >>
        /\ Building(StartProc)

\* C3: a request whose handling raises a failure before its response is
\* finished puts the server in Error with the failure's message, is answered
\* 500 with its own failure message as body, also when other requests are
\* being handled, and leaves the status idle when its handler finishes.
C3_FailureAnsweredWithOwnMessage ==
    /\ [](\A r \in Req :
            /\ pc[r] = "caught" => status = "error" /\ statusMessage = failure[r]
            /\ (pc[r] = "done" /\ failure[r] # None) =>
                   /\ res[r].finished
                   /\ res[r].statusCode = 500
                   /\ res[r].body = << failure[r] >>)
    /\ [][\A r \in Req :
            (pc[r] = "caught" /\ pc'[r] = "done") => status' = "idle"]_vars

\* C3 witness: two requests failed with different messages, the second while
\* a third request was being handled.
C3_Witness ==
    \E r, q, o \in Req :
        /\ r # q /\ o # r /\ o # q
        /\ pc[r] = "done" /\ failure[r] \in ErrMsgs(r)
        /\ pc[q] = "caught" /\ failure[q] \in ErrMsgs(q)
        /\ pc[o] \notin {"new", "done"}

\* C4 as stated: the Error state lasts until the next request arrives, so the
\* step that leaves Error is the arrival of a request.
C4_ErrorLastsUntilNextRequest ==
    [][(status = "error" /\ status' # "error") =>
          \E r \in Req : pc[r] = "new" /\ pc'[r] # "new"]_vars

\* C4 amended: the Error state lasts only for the catch segment of the
\* failing request's own handler.  It holds that request's failure message;
\* the next step is the end of that handler, which reports the message in
\* that request's response and sets the status idle; no other handler moves,
\* and no request arrives, while the status is Error.
C4_ErrorEndsWithFailingHandler ==
    /\ [](status = "error" =>
            /\ running \in Req
            /\ pc[running] = "caught"
            /\ statusMessage = failure[running])
    /\ [][status = "error" =>
            /\ status' = "idle"
            /\ pc'[running] = "done"
            /\ res'[running].body = << statusMessage >>
            /\ \A q \in Req \ {running} : pc'[q] = pc[q]]_vars

\* C4 witness: a failure has been reported and the status is idle again while
\* a request has still to arrive.
C4_Witness ==
    \E r, q \in Req :
        /\ pc[r] = "done" /\ failure[r] # None /\ res[r].statusCode = 500
        /\ status = "idle"
        /\ pc[q] = "new"

\* C5: once start() has failed, the status is never idle and no request is
\* routed or served.
C5_FailedStartNeverServes ==
    startPc = "rejected" => (status # "idle" /\ \A r \in Req : did[r] = {})

\* The artifact map of a run in which every build succeeds.
RECURSIVE MergeAll(_, _)
MergeAll(steps, acc) ==
    IF steps = << >> THEN acc
    ELSE MergeAll(Tail(steps),
                  Spread(acc, BuilderOutput(Head(steps).use, Head(steps).entry)))

CompleteOutput == MergeAll(BuildSteps(nowJson.builds, 1), EmptyMap)

\* C6: the artifact map the handlers look destinations up in is the initial
\* empty map or the complete output of a run in which every build succeeded;
\* a run in which a build throws publishes nothing, and a published map stays.
C6_OnlyCompleteMapsPublished ==
    /\ [](/\ assets \in { EmptyMap, CompleteOutput }
          /\ \A r \in Req :
               asset[r] # Unset =>
                  \E m \in { EmptyMap, CompleteOutput } :
                     asset[r] = IF impl = "cmd"
                                THEN route(req[r], m, nowJson.routes)
                                ELSE resolveDest(m, routed[r].dest))
    /\ [][assets # EmptyMap => assets' = assets]_vars

\* C6 witness: the build run of one request failed, and another request
\* looked its destination up in the artifact map of a later run.
C6_Witness ==
    \E r, q \in Req :
        /\ failure[r] = "Build failed."
        /\ "lookup" \in did[q] /\ asset[q].type = "Lambda"

\* C7: builderCache.install is called at most once for each plugin.
C7_InstallOncePerPlugin == \A u \in Plugins : installCalls[u] <= 1

C9_UrlDestIsProxied ==
    \A r \in Req :
        (routed[r] # NoRoute /\ isURL(routed[r].dest)) =>
            /\ res[r].by = "proxy"
            /\ "proxy" \in did[r]
            /\ "lookup" \notin did[r]
            /\ asset[r] = Unset

\* C9 witness: a request routed to a URL with status 302 was handled, by a
\* server with builds.
C9_Witness ==
    \E r \in Req :
        /\ pc[r] = "done" /\ isURL(routed[r].dest) /\ routed[r].status = 302
        /\ nowJson.hasBuilds /\ assets # EmptyMap

\* The response of r is the bare redirect: ended without a body, with the
\* routed headers, and nothing else was called for r.
Redirected(r) ==
    /\ res[r].finished
    /\ res[r].by = "redirect"
    /\ res[r].body = << >>
    /\ res[r].headers = routed[r].headers
    /\ did[r] \cap {"proxy", "static", "lookup", "body", "invoke"} = {}
    /\ asset[r] = Unset

\* C10 as stated: every request routed with status 301, 302 or 303 gets the
\* bare redirect.
C10_RedirectStatusEndsResponse ==
    \A r \in Req : routed[r].status \in {301, 302, 303} => Redirected(r)

\* C10 amended: every request routed with status 301, 302 or 303 to a
\* destination that is not a fully-qualified URL gets the bare redirect.
C10_RedirectStatusWithoutUrlEndsResponse ==
    \A r \in Req :
        (routed[r].status \in {301, 302, 303} /\ ~isURL(routed[r].dest)) =>
            Redirected(r)

\* C10 witness: requests routed with 301 and with 303 were redirected, one of
\* them with a Location header.
C10_Witness ==
    \E r, q \in Req :
        /\ routed[r].status = 301 /\ res[r].by = "redirect"
        /\ Location \in res[r].headers
        /\ routed[q].status = 303 /\ res[q].by = "redirect"

\* The request r is answered by static serving of the project directory:
\* there is no now.json, or the now.json has no builds and the route result
\* is neither a proxy target nor a redirect.
StaticFallback(r) ==
    /\ "config" \in did[r]
    /\ \/ ~nowJson.exists
       \/ /\ ~nowJson.hasBuilds
          /\ routed[r] # NoRoute
          /\ ~isURL(routed[r].dest)
          /\ routed[r].status \notin {301, 302, 303}

\* C11: for a request answered by static serving of the project directory
\* whose path matches the ignore list, the static-file collaborator is not
\* called, and the answer (unless reading the ignore list failed) is 404.
C11_IgnoredPathNotServed ==
    \A r \in Req :
        (StaticFallback(r) /\ StripSlash(req[r]) \in ignored) =>
            /\ "static" \notin did[r]
            /\ (pc[r] = "done" /\ failure[r] = None) =>
                   res[r].finished /\ res[r].statusCode = 404

\* C11, for a project without a now.json only.
C11_IgnoredPathNotServedWithoutConfig ==
    \A r \in Req :
        (StaticFallback(r) /\ ~nowJson.exists /\ StripSlash(req[r]) \in ignored) =>
            /\ "static" \notin did[r]
            /\ (pc[r] = "done" /\ failure[r] = None) =>
                   res[r].finished /\ res[r].statusCode = 404

Position(m, k) == CHOOSE i \in DOMAIN m : m[i][1] = k

C13_OldIsLookedUpAsNew ==
    (lookup.fn = "route" /\ lookup.dest = U_old /\ lookup.routes = ProjectRoutes) =>
        /\ lookup.reqDest = K_new
        /\ lookup.found.key \notin { K_old, U_new }
        /\ Has(lookup.assets, K_new) => lookup.found = Found(lookup.assets, K_new)

\* The route rule ends the matching: its dest is an absolute URL, or its
\* status is 301, 302 or 303.
Terminal(rule) ==
    \/ rule.hasDest /\ isURL(rule.dest)
    \/ rule.status \in {301, 302, 303}

\* The destination of path under rules applied in declaration order, each
\* rewrite fed to the following rules, up to the first terminal rule that
\* matches.
RECURSIVE ExpectedDest(_, _)
ExpectedDest(rules, path) ==
    IF rules = << >> THEN path
    ELSE LET rule    == Head(rules)
             matches == path = PatternBody(rule.src)
             next    == IF matches /\ rule.hasDest THEN rule.dest ELSE path
         IN  IF matches /\ Terminal(rule) THEN next
             ELSE ExpectedDest(Tail(rules), next)

\* C16: route() applies the rules in declaration order, feeds each rewrite to
\* the following rules, and applies no rule after one that yields a terminal
\* outcome: the destination is the one that rule produced.
C16_RulesInOrderUntilTerminal ==
    lookup.fn = "route" =>
        lookup.reqDest = ExpectedDest(lookup.routes, StripSlash(lookup.dest))

\* C16, for the route lists without a terminal rule.
C16_RulesInOrderWithoutTerminal ==
    (lookup.fn = "route" /\ \A i \in DOMAIN lookup.routes : ~Terminal(lookup.routes[i])) =>
        lookup.reqDest = ExpectedDest(lookup.routes, StripSlash(lookup.dest))

\* The key k is <d>/index.<ext>, or index.<ext> when d is the root.
IsIndexOf(k, d) ==
    \E ext \in { << "j", "s" >>, << "h", "t", "m", "l" >> } :
        k = (IF d = << >> THEN << >> ELSE d \o << "/" >>)
              \o << "i", "n", "d", "e", "x", "." >> \o ext

\* C18: when the map has no exact key, the artifact resolveDest returns, if
\* any, is keyed <dest>/index.<ext> (index.<ext> for the root), <dest> being
\* the destination without its leading and trailing slash.
C18_IndexFallbackOnlyIndexFiles ==
    LET m   == lookup.assets
        key == StripSlash(lookup.dest)
    IN  (lookup.fn = "resolveDest" /\ ~Has(m, key) /\ lookup.found # NoAsset) =>
            IsIndexOf(lookup.found.key, StripTrailingSlash(key))

\* C18, for the maps whose keys are all index files or exact destinations
\* of another kind: without the keys "fooindex.js" and "api".
C18_IndexFallbackAmongIndexFiles ==
    LET m   == lookup.assets
        key == StripSlash(lookup.dest)
    IN  ( /\ lookup.fn = "resolveDest" /\ ~Has(m, key) /\ lookup.found # NoAsset
          /\ Keys(m) \cap { K_fooindex, K_apiFile } = {} ) =>
            IsIndexOf(lookup.found.key, StripTrailingSlash(key))

\* The partial maps the builds of a run return, in the order of the calls.
Outputs(steps) ==
    [i \in DOMAIN steps |-> BuilderOutput(steps[i].use, steps[i].entry)]

\* m holds every output path of the partial maps outs, each with the
\* artifact of the last partial map that has it.
LastBuildWins(outs, m) ==
    /\ Keys(m) = UNION { Keys(outs[i]) : i \in DOMAIN outs }
    /\ \A k \in Keys(m) :
         LET last == CHOOSE i \in DOMAIN outs :
                        /\ Has(outs[i], k)
                        /\ \A j \in DOMAIN outs : Has(outs[j], k) => j <= i
         IN  Get(m, k) = Get(outs[last], k)

\* The build run of process p has returned its artifact map.
Returned(p) ==
    IF p = StartProc THEN startPc = "resolved" /\ nowJson.hasBuilds
    ELSE impl = "cmd" /\ "lookup" \in did[p]

\* C15: the artifact map a successful run of buildLambdas returns holds, for
\* every output path, the artifact of the last build (in rule order, then
\* entry order) that produced it; a run whose builds all return ends
\* successfully, whatever paths collide.
C15_LastBuildWins ==
    \A p \in Proc :
        Returned(p) =>
            LastBuildWins(Outputs(BuildSteps(nowJson.builds, 1)), results[p])

\* C15 witness: a run has returned in which api/index.js was built three
\* times: by api/** from api/index.js and from api/index.ts, then copied by
\* @now/static.
C15_Witness ==
    /\ Returned(StartProc)
    /\ Len(nowJson.builds) = 2
    /\ nowJson.builds[1].src = "api/**" /\ nowJson.builds[2].src = "**"
    /\ Get(results[StartProc], K_api) = FileFsRef

\* The artifact found for r is a Lambda without an invocable handle.
Unbuilt(r) == asset[r].type = "Lambda" /\ ~asset[r].fn

\* The invocation call made for r threw.
InvocationThrew(r) == "invoke" \in did[r] /\ failure[r] # None

\* C14 (lib server): a request whose artifact is a Lambda without a handle is
\* answered 500 at once, without reading the body and without calling any
\* handle; a request whose invocation call throws is answered 500 with the
\* message of that failure; the status is idle when either handler finishes;
\* a step of one handler changes the response, the position and the failure
\* of no other request, and a request that raised no failure never gets the
\* error response.
C14_InvocationFailureConfined ==
    /\ [](impl = "lib" =>
            \A r \in Req :
                /\ Unbuilt(r) =>
                      /\ pc[r] = "done" /\ res[r].finished
                      /\ res[r].statusCode = 500
                      /\ res[r].body = << "Lambda function has not been built" >>
                      /\ did[r] \cap { "body", "invoke" } = {}
                      /\ failure[r] = None
                /\ (pc[r] = "done" /\ InvocationThrew(r)) =>
                      /\ res[r].finished
                      /\ res[r].statusCode = 500
                      /\ res[r].body = << failure[r] >>
                /\ (pc[r] = "done" /\ failure[r] = None) => res[r].by # "error")
    /\ [][impl = "lib" =>
            \A r \in Req :
                /\ (pc[r] # "done" /\ pc'[r] = "done" /\ (Unbuilt(r)' \/ InvocationThrew(r)')) =>
                      status' = "idle"
                /\ pc'[r] # pc[r] =>
                      \A q \in Req \ {r} :
                          res'[q] = res[q] /\ pc'[q] = pc[q] /\ failure'[q] = failure[q]]_vars

\* C14 witness: one request was answered for a Lambda without a handle,
\* the invocation of another has thrown and was answered, while the
\* invocation of a third is in flight.
C14_Witness ==
    /\ impl = "lib"
    /\ \E r, q, o \in Req :
         /\ Unbuilt(o) /\ pc[o] = "done"
         /\ pc[r] = "done" /\ InvocationThrew(r) /\ res[r].statusCode = 500
         /\ pc[q] = "invoking"

\* C17: the status code of a response ended by the redirect branch is the
\* status the router resolved (301, 302 or 303).
C17_RedirectStatusApplied ==
    \A r \in Req :
        res[r].by = "redirect" => res[r].statusCode = routed[r].status

\* C19: when a handler calls the invocable handle of the artifact it found,
\* stop() has not called destroy on that handle.
C19_NoInvokeAfterDestroy ==
    [][\A r \in Req :
         ("invoke" \notin did[r] /\ "invoke" \in did'[r]) =>
            destroyCalls[asset[r].key] = 0]_vars

\* C20: a request gets the 500 response of the end of the handler (cmd: the
\* fallback send; lib: the response of the catch block) only if its own
\* handling raised a failure, and the body is the message of that failure.
C20_FallbackOnlyForOwnFailure ==
    \A r \in Req :
        res[r].by \in { "fallback", "error" } =>
            /\ failure[r] # None
            /\ res[r].body = << failure[r] >>

\* C20, its second half alone: the body of the 500 response is never the
\* busy reason of a build.
C20_FallbackNeverBusyReason ==
    \A r \in Req :
        res[r].by \in { "fallback", "error" } =>
            res[r].body \notin { << "installing builders" >>, << "building lambdas" >> }
====
